---- MODULE Spec2Model ----
(***************************************************************************)
(* Model of infa3/helper.py: the helper functions that build command       *)
(* lines for the Informatica command line programs, check their output for *)
(* the success marker, reformat the output lines and write the import      *)
(* control file.                                                           *)
(*                                                                         *)
(* Python str values are TLA+ strings (Len, \o and SubSeq act on them as   *)
(* on sequences of characters).  Every function of the module is a         *)
(* process whose position is pc; Init draws the function that is called    *)
(* and its arguments from bounded sets.                                    *)
(***************************************************************************)
EXTENDS Integers, Sequences, FiniteSets, TLC

VARIABLES
    fn,               \* the function being called
    pc,               \* its position: a source line, "returned" or "raised"
    caller,           \* "direct": called on raw arguments; "pipeline": cmd_status
                      \* called on what format_output returned
    params,           \* cmd_prepare: the configuration, in insertion order
    opts_args,        \* cmd_prepare: options that take an argument
    opts_flags,       \* cmd_prepare: options that are plain flags
    command,          \* cmd_prepare: the list being built; cmd_status: the command
    command_output,   \* cmd_status, format_output: the output lines
    field_separator,  \* format_output: the separator
    i,                \* position of the for loop (cmd_prepare, format_output)
    result,           \* format_output: the list being built
    xml_args,         \* create_import_control_xml: its six arguments
    template,         \* create_import_control_xml: the rendered template
    f,                \* create_import_control_xml: the open file ("" when none)
    fs,               \* the file system: path -> content, or NoFile
    disk_full,        \* the file system refuses to write
    raw_output,       \* the lines the external command printed, as the caller got them
    stdout,           \* what has been printed
    exc               \* the exception that left the function, or NoExc

vars == <<fn, pc, caller, params, opts_args, opts_flags, command, command_output,
          field_separator, i, result, xml_args, template, f, fs, disk_full,
          raw_output, stdout, exc>>

----------------------------------------------------------------------------
(* Bounds of the model. *)

\* longest configuration passed to cmd_prepare
MaxParams == 2
\* most output lines passed to cmd_status and format_output
MaxLines == 2
\* most tokens of the command passed to cmd_status
MaxCmd == 2

----------------------------------------------------------------------------
(* Python values. *)

PyStr(s) == [type |-> "str", s |-> s, n |-> 0, l |-> <<>>]
\* bool is a subclass of int: True is the number 1, False the number 0
PyBool(b) == [type |-> "bool", s |-> "", n |-> IF b THEN 1 ELSE 0, l |-> <<>>]
PyInt(n) == [type |-> "int", s |-> "", n |-> n, l |-> <<>>]
\* a list of str
PyList(l) == [type |-> "list", s |-> "", n |-> 0, l |-> l]

IsNumber(v) == v.type \in {"bool", "int"}

\* a == b
PyEq(a, b) ==
    IF IsNumber(a) /\ IsNumber(b) THEN a.n = b.n
    ELSE IF a.type = "str" /\ b.type = "str" THEN a.s = b.s
    ELSE IF a.type = "list" /\ b.type = "list" THEN a.l = b.l
    ELSE FALSE

\* sub in s, for two str
Contains(s, sub) ==
    \E k \in 1..(Len(s) - Len(sub) + 1) : SubSeq(s, k, k + Len(sub) - 1) = sub

\* s in v, for a str s: a substring test on a str, a membership test on a list
PyIn(s, v) ==
    IF v.type = "str" THEN Contains(v.s, s)
    ELSE v.type = "list" /\ \E k \in 1..Len(v.l) : v.l[k] = s

\* sep.join(strs), for a sequence of str
RECURSIVE Join(_, _)
Join(strs, sep) ==
    IF Len(strs) = 0 THEN ""
    ELSE IF Len(strs) = 1 THEN strs[1]
    ELSE strs[1] \o sep \o Join(Tail(strs), sep)

AllStr(vals) == \A k \in 1..Len(vals) : vals[k].type = "str"

StrsOf(vals) == [k \in 1..Len(vals) |-> vals[k].s]

NoExc == [type |-> "", msg |-> ""]

NoFile == [exists |-> FALSE, content |-> ""]

File(content) == [exists |-> TRUE, content |-> content]

Paths == {"/tmp/control.xml", "/missing/control.xml"}

\* the paths whose directory exists and can be written to
OpenablePaths == {"/tmp/control.xml"}

EmptyFs == [p \in Paths |-> NoFile]

NoXmlArgs ==
    [xml_output |-> "", src_folder |-> "", src_repo |-> "", tgt_folder |-> "",
     tgt_repo |-> "", dtd |-> ""]

----------------------------------------------------------------------------
(* cmd_prepare *)

Keys == {"f", "u", "x"}

Values == {PyStr("v"), PyStr("yes"), PyBool(TRUE), PyBool(FALSE), PyInt(1), PyInt(2)}

\* dictionaries of at most MaxParams items, as the sequence of their items
RECURSIVE Dicts(_)
Dicts(n) ==
    IF n = 0 THEN {<<>>}
    ELSE LET shorter == Dicts(n - 1)
         IN  shorter \cup
             {Append(d, [key |-> k, value |-> v]) :
                 d \in {e \in shorter : Len(e) = n - 1}, k \in Keys, v \in Values}

DistinctKeys(d) == \A a, b \in 1..Len(d) : a # b => d[a].key # d[b].key

\* PrepareItem putting the tokens of an argument option in front of the list
PrepareItemInFront(key, value) ==
    IF key \in opts_args
    THEN /\ command' = <<PyStr("-" \o key), value>> \o command
         /\ pc' = "L26"
         /\ exc' = exc
    ELSE IF key \in opts_flags /\ PyEq(value, PyBool(TRUE))
    THEN /\ command' = command \o <<PyStr("-" \o key)>>
         /\ pc' = "L26"
         /\ exc' = exc
    ELSE IF key \notin (opts_args \cup opts_flags)
    THEN /\ command' = command
         /\ pc' = "raised"
         /\ exc' = [type |-> "Exception", msg |-> "unsupported option: " \o key]
    ELSE /\ command' = command
         /\ pc' = "L26"
         /\ exc' = exc

\* PrepareItem skipping an option it does not know
PrepareItemLenient(key, value) ==
    IF key \in opts_args
    THEN /\ command' = command \o <<PyStr("-" \o key), value>>
         /\ pc' = "L26"
         /\ exc' = exc
    ELSE IF key \in opts_flags /\ PyEq(value, PyBool(TRUE))
    THEN /\ command' = command \o <<PyStr("-" \o key)>>
         /\ pc' = "L26"
         /\ exc' = exc
    ELSE /\ command' = command
         /\ pc' = "L26"
         /\ exc' = exc

\* one pass of the loop body, lines 27-32, on the item (key, value)
PrepareItem(key, value) ==
    IF key \in opts_args
    THEN /\ command' = command \o <<PyStr("-" \o key), value>>
         /\ pc' = "L26"
         /\ exc' = exc
    ELSE IF key \in opts_flags /\ PyEq(value, PyBool(TRUE))
    THEN /\ command' = command \o <<PyStr("-" \o key)>>
         /\ pc' = "L26"
         /\ exc' = exc
    ELSE IF key \notin (opts_args \cup opts_flags)
    THEN /\ command' = command
         /\ pc' = "raised"
         /\ exc' = [type |-> "Exception", msg |-> "unsupported option: " \o key]
    ELSE /\ command' = command
         /\ pc' = "L26"
         /\ exc' = exc

PrepareIter ==
    /\ fn = "cmd_prepare"
    /\ pc = "L26"
    /\ i <= Len(params)
    /\ PrepareItem(params[i].key, params[i].value)
    /\ i' = i + 1
    /\ UNCHANGED <<fn, caller, raw_output, params, opts_args, opts_flags, command_output,
                   field_separator, result, xml_args, template, f, fs,
                   disk_full, stdout>>

PrepareReturn ==
    /\ fn = "cmd_prepare"
    /\ pc = "L26"
    /\ i > Len(params)
    /\ pc' = "returned"
    /\ UNCHANGED <<fn, caller, raw_output, params, opts_args, opts_flags, command,
                   command_output, field_separator, i, result, xml_args,
                   template, f, fs, disk_full, stdout, exc>>

InitPrepare ==
    /\ fn = "cmd_prepare"
    /\ pc = "L26"
    /\ params \in {d \in Dicts(MaxParams) : DistinctKeys(d)}
    /\ opts_args \in SUBSET Keys
    /\ opts_flags \in SUBSET Keys
    /\ command = <<>>
    /\ command_output = <<>>
    /\ field_separator = ""
    /\ xml_args = NoXmlArgs
    /\ fs = EmptyFs
    /\ disk_full = FALSE

----------------------------------------------------------------------------
(* cmd_status *)

SuccessMarker == "completed successfully"

StatusLines ==
    {"", "Process completed successfully.", "completed successfully",
     "completed  successfully", "Completed Successfully", "ERROR: failed"}

Tokens == {"pmrep", "-x"}

RECURSIVE SeqsUpTo(_, _)
SeqsUpTo(S, n) ==
    IF n = 0 THEN {<<>>}
    ELSE LET shorter == SeqsUpTo(S, n - 1)
         IN  shorter \cup
             {Append(s, x) : s \in {t \in shorter : Len(t) = n - 1}, x \in S}

PyStrs(S) == {PyStr(s) : s \in S}

\* Succeeded with all() in the place of any()
SucceededAll(output) == \A k \in 1..Len(output) : PyIn(SuccessMarker, output[k])

\* any('completed successfully' in line for line in output)
Succeeded(output) == \E k \in 1..Len(output) : PyIn(SuccessMarker, output[k])

\* line 72
StatusCheck ==
    /\ fn = "cmd_status"
    /\ pc = "L72"
    /\ pc' = IF Succeeded(command_output) THEN "returned" ELSE "L73"
    /\ UNCHANGED <<fn, caller, raw_output, params, opts_args, opts_flags, command,
                   command_output, field_separator, i, result, xml_args,
                   template, f, fs, disk_full, stdout, exc>>

\* StatusPrint printing nothing
StatusPrintNothing ==
    /\ fn = "cmd_status"
    /\ pc = "L73"
    /\ pc' = "L74"
    /\ UNCHANGED <<fn, caller, raw_output, params, opts_args, opts_flags,
                   command, command_output, field_separator, i, result,
                   xml_args, template, f, fs, disk_full, stdout, exc>>

\* line 73: str.join takes only str items
StatusPrint ==
    /\ fn = "cmd_status"
    /\ pc = "L73"
    /\ IF AllStr(command_output)
       THEN /\ stdout' = Append(stdout, Join(StrsOf(command_output), "\n") \o "\n")
            /\ pc' = "L74"
            /\ exc' = exc
       ELSE /\ stdout' = stdout
            /\ pc' = "raised"
            /\ exc' = [type |-> "TypeError", msg |-> "expected str instance"]
    /\ UNCHANGED <<fn, caller, raw_output, params, opts_args, opts_flags, command,
                   command_output, field_separator, i, result, xml_args,
                   template, f, fs, disk_full>>

\* line 74
StatusRaise ==
    /\ fn = "cmd_status"
    /\ pc = "L74"
    /\ pc' = "raised"
    /\ exc' = IF AllStr(command)
              THEN [type |-> "Exception",
                    msg |-> "failed to execute: " \o Join(StrsOf(command), " ")]
              ELSE [type |-> "TypeError", msg |-> "expected str instance"]
    /\ UNCHANGED <<fn, caller, raw_output, params, opts_args, opts_flags, command,
                   command_output, field_separator, i, result, xml_args,
                   template, f, fs, disk_full, stdout>>

InitStatus ==
    /\ fn = "cmd_status"
    /\ pc = "L72"
    /\ params = <<>>
    /\ opts_args = {}
    /\ opts_flags = {}
    /\ command \in SeqsUpTo(PyStrs(Tokens), MaxCmd)
    /\ command_output \in SeqsUpTo(PyStrs(StatusLines), MaxLines)
    /\ field_separator = ""
    /\ xml_args = NoXmlArgs
    /\ fs = EmptyFs
    /\ disk_full = FALSE

----------------------------------------------------------------------------
(* format_output *)

\* ignore_lines without 'Completed at'
ignore_lines_short ==
    <<"Informatica",
      "Copyright",
      "All Rights Reserved",
      "This Software is protected",
      "Invoked at",
      "completed successfully">>

\* ignore_lines without the success marker
ignore_lines_banner ==
    <<"Informatica",
      "Copyright",
      "All Rights Reserved",
      "This Software is protected",
      "Invoked at",
      "Completed at">>

ignore_lines ==
    <<"Informatica",
      "Copyright",
      "All Rights Reserved",
      "This Software is protected",
      "Invoked at",
      "Completed at",
      "completed successfully">>

\* the characters str.strip() removes
Whitespace == {" ", "\t", "\n", "\r", "\f"}

RECURSIVE LStrip(_)
LStrip(s) ==
    IF s # "" /\ SubSeq(s, 1, 1) \in Whitespace
    THEN LStrip(SubSeq(s, 2, Len(s)))
    ELSE s

RECURSIVE RStrip(_)
RStrip(s) ==
    IF s # "" /\ SubSeq(s, Len(s), Len(s)) \in Whitespace
    THEN RStrip(SubSeq(s, 1, Len(s) - 1))
    ELSE s

\* Strip removing the leading whitespace only
StripLeft(s) == LStrip(s)

\* s.strip()
Strip(s) == RStrip(LStrip(s))

\* s.split(sep), for a non-empty sep: cut at each occurrence, left to right
RECURSIVE Split(_, _)
Split(s, sep) ==
    IF ~Contains(s, sep) THEN <<s>>
    ELSE LET at == CHOOSE k \in 1..(Len(s) - Len(sep) + 1) :
                       /\ SubSeq(s, k, k + Len(sep) - 1) = sep
                       /\ \A j \in 1..(k - 1) : SubSeq(s, j, j + Len(sep) - 1) # sep
         IN  <<SubSeq(s, 1, at - 1)>> \o Split(SubSeq(s, at + Len(sep), Len(s)), sep)

\* any(s in item for s in ignore_lines)
Ignored(item) == \E k \in 1..Len(ignore_lines) : Contains(item, ignore_lines[k])

\* the condition of line 103
Kept(item) == item # "" /\ ~Ignored(item)

\* one pass of the loop body, lines 103-107, on the str item; str.split
\* raises ValueError on an empty separator
FormatItem(item) ==
    IF ~Kept(item)
    THEN /\ result' = result
         /\ pc' = "L102"
         /\ exc' = exc
    ELSE IF Contains(item, field_separator)
    THEN IF field_separator = ""
         THEN /\ result' = result
              /\ pc' = "raised"
              /\ exc' = [type |-> "ValueError", msg |-> "empty separator"]
         ELSE /\ result' = Append(result, PyList(Split(Strip(item), field_separator)))
              /\ pc' = "L102"
              /\ exc' = exc
    ELSE /\ result' = Append(result, PyStr(Strip(item)))
         /\ pc' = "L102"
         /\ exc' = exc

FormatIter ==
    /\ fn = "format_output"
    /\ pc = "L102"
    /\ i <= Len(command_output)
    /\ FormatItem(command_output[i].s)
    /\ i' = i + 1
    /\ UNCHANGED <<fn, caller, raw_output, params, opts_args, opts_flags, command,
                   command_output, field_separator, xml_args, template, f, fs,
                   disk_full, stdout>>

\* line 109
FormatReturn ==
    /\ fn = "format_output"
    /\ pc = "L102"
    /\ i > Len(command_output)
    /\ pc' = "returned"
    /\ UNCHANGED <<fn, caller, raw_output, params, opts_args, opts_flags, command,
                   command_output, field_separator, i, result, xml_args,
                   template, f, fs, disk_full, stdout, exc>>

FormatLines ==
    {"", "  ", "\t", "A|B|C", "  x  ", " a | b ", "k, v",
     "Informatica banner", "Copyright (c) 1993", "All Rights Reserved|x",
     "This Software is protected", "Invoked at 10:00", "Completed at 10:01",
     "completed successfully", "informatica|copyright"}

Separators == {"|", " ", ", ", ""}

InitFormat ==
    /\ fn = "format_output"
    /\ pc = "L102"
    /\ params = <<>>
    /\ opts_args = {}
    /\ opts_flags = {}
    /\ command = <<>>
    /\ command_output \in SeqsUpTo(PyStrs(FormatLines), MaxLines)
    /\ field_separator \in Separators
    /\ xml_args = NoXmlArgs
    /\ fs = EmptyFs
    /\ disk_full = FALSE

\* the command the pipeline ran
PipelineCommand == <<PyStr("pmrep"), PyStr("listobjects")>>

\* the caller checks the status on the formatted output instead of the raw one
PipelineStatus ==
    /\ fn = "format_output"
    /\ pc = "returned"
    /\ fn' = "cmd_status"
    /\ pc' = "L72"
    /\ caller' = "pipeline"
    /\ command' = PipelineCommand
    /\ command_output' = result
    /\ UNCHANGED <<raw_output, params, opts_args, opts_flags, field_separator, i, result,
                   xml_args, template, f, fs, disk_full, stdout, exc>>

----------------------------------------------------------------------------
(* create_import_control_xml *)

\* the template literal of lines 127-134, before str.format
ControlTemplate ==
    "<?xml version=\"1.0\" encoding=\"ISO-8859-1\"?>\n"
    \o "<!DOCTYPE IMPORTPARAMS SYSTEM \"{dtd}\">\n"
    \o "<IMPORTPARAMS CHECKIN_AFTER_IMPORT=\"NO\">\n"
    \o "<FOLDERMAP SOURCEFOLDERNAME=\"{src_folder}\" SOURCEREPOSITORYNAME=\"{src_repo}\" TARGETFOLDERNAME=\"{tgt_folder}\" TARGETREPOSITORYNAME=\"{tgt_repo}\"/>\n"
    \o "<RESOLVECONFLICT>\n"
    \o "<TYPEOBJECT OBJECTTYPENAME = \"ALL\" RESOLUTION=\"REPLACE\"/>\n"
    \o "</RESOLVECONFLICT>\n"
    \o "</IMPORTPARAMS>"

\* the position of the first occurrence of the character c in s (s holds one)
IndexOf(s, c) ==
    CHOOSE k \in 1..Len(s) :
        SubSeq(s, k, k) = c /\ \A j \in 1..(k - 1) : SubSeq(s, j, j) # c

\* t.format(**kw): the literal text is copied, each replacement field
\* {name} becomes kw[name]; the values are not scanned again
RECURSIVE Format(_, _)
Format(t, kw) ==
    IF ~Contains(t, "{") THEN t
    ELSE LET open == IndexOf(t, "{")
             rest == SubSeq(t, open + 1, Len(t))
             close == IndexOf(rest, "}")
         IN  SubSeq(t, 1, open - 1)
                 \o kw[SubSeq(rest, 1, close - 1)]
                 \o Format(SubSeq(rest, close + 1, Len(rest)), kw)

\* the keyword arguments of the str.format call of line 134
FormatArgs(a) ==
    [name \in {"src_folder", "src_repo", "tgt_folder", "tgt_repo", "dtd"} |->
        CASE name = "src_folder" -> a.src_folder
          [] name = "src_repo" -> a.src_repo
          [] name = "tgt_folder" -> a.tgt_folder
          [] name = "tgt_repo" -> a.tgt_repo
          [] name = "dtd" -> a.dtd]

\* lines 127-134
XmlFormat ==
    /\ fn = "create_import_control_xml"
    /\ pc = "L127"
    /\ template' = Format(ControlTemplate, FormatArgs(xml_args))
    /\ pc' = "L135"
    /\ UNCHANGED <<fn, caller, raw_output, params, opts_args, opts_flags, command,
                   command_output, field_separator, i, result, xml_args, f, fs,
                   disk_full, stdout, exc>>

\* OpenForWriting as open(path, 'a') does it: what the file holds is kept
OpenForAppending(file) == IF file.exists THEN file ELSE File("")

\* the file open(path, 'w') leaves on disk: created, or cut to nothing
OpenForWriting(file) == File("")

\* line 135: open(xml_output, 'w')
XmlOpen ==
    /\ fn = "create_import_control_xml"
    /\ pc = "L135"
    /\ IF xml_args.xml_output \in OpenablePaths
       THEN /\ fs' = [fs EXCEPT ![xml_args.xml_output] = OpenForWriting(@)]
            /\ f' = xml_args.xml_output
            /\ pc' = "L136"
            /\ exc' = exc
       ELSE /\ fs' = fs
            /\ f' = f
            /\ pc' = "raised"
            /\ exc' = [type |-> "FileNotFoundError", msg |-> xml_args.xml_output]
    /\ UNCHANGED <<fn, caller, raw_output, params, opts_args, opts_flags, command,
                   command_output, field_separator, i, result, xml_args,
                   template, disk_full, stdout>>

\* line 136 and the end of the with block: the text is written and the
\* file closed, also when the write fails
XmlWrite ==
    /\ fn = "create_import_control_xml"
    /\ pc = "L136"
    /\ IF disk_full
       THEN /\ fs' = fs
            /\ pc' = "raised"
            /\ exc' = [type |-> "OSError", msg |-> "No space left on device"]
       ELSE /\ fs' = [fs EXCEPT ![f] = File(@.content \o template)]
            /\ pc' = "returned"
            /\ exc' = exc
    /\ f' = ""
    /\ UNCHANGED <<fn, caller, raw_output, params, opts_args, opts_flags, command,
                   command_output, field_separator, i, result, xml_args,
                   template, disk_full, stdout>>

XmlValues == {"DEV", "a\"<&>b", "{dtd}"}

InitXml ==
    /\ fn = "create_import_control_xml"
    /\ pc = "L127"
    /\ params = <<>>
    /\ opts_args = {}
    /\ opts_flags = {}
    /\ command = <<>>
    /\ command_output = <<>>
    /\ field_separator = ""
    /\ xml_args \in [xml_output : Paths, src_folder : XmlValues,
                     src_repo : XmlValues, tgt_folder : XmlValues,
                     tgt_repo : XmlValues, dtd : XmlValues]
    /\ fs \in {EmptyFs, [EmptyFs EXCEPT !["/tmp/control.xml"] = File("<OLD/>")]}
    /\ disk_full \in BOOLEAN

----------------------------------------------------------------------------

Init ==
    /\ \/ InitPrepare
       \/ InitStatus
       \/ InitFormat
       \/ InitXml
    /\ caller = "direct"
    /\ raw_output = command_output
    /\ i = 1
    /\ result = <<>>
    /\ template = ""
    /\ f = ""
    /\ stdout = <<>>
    /\ exc = NoExc

Next ==
    \/ PrepareIter
    \/ PrepareReturn
    \/ StatusCheck
    \/ StatusPrint
    \/ StatusRaise
    \/ FormatIter
    \/ FormatReturn
    \/ PipelineStatus
    \/ XmlFormat
    \/ XmlOpen
    \/ XmlWrite

Spec == Init /\ [][Next]_vars

----------------------------------------------------------------------------
(* The properties. *)

\* the success marker cuts the line into more than one part
MarkerCuts(line) ==
    line.type = "str" /\ Len(Split(line.s, "completed successfully")) > 1

\* C1: cmd_status returns silently (no exception, nothing printed) if and
\* only if at least one line of command_output contains 'completed
\* successfully'; on every other output it raises.
C1_SilentIffMarker ==
    fn = "cmd_status" =>
        /\ pc = "returned" =>
               /\ \E k \in 1..Len(command_output) : MarkerCuts(command_output[k])
               /\ stdout = <<>>
               /\ exc = NoExc
        /\ pc \in {"L73", "L74", "raised"} =>
               \A k \in 1..Len(command_output) : ~MarkerCuts(command_output[k])
        /\ pc = "raised" <=> exc # NoExc

C1_Witness ==
    /\ fn = "cmd_status"
    /\ pc = "returned"
    /\ Len(command_output) = 2
    /\ command_output[1] = PyStr("ERROR: failed")
    /\ command_output[2] = PyStr("Process completed successfully.")

\* C2: when no line contains the marker, cmd_status raises only after it
\* has printed every output line in input order, and the error's message
\* holds the command's tokens joined by single spaces.
C2_PrintBeforeRaise ==
    [][(fn = "cmd_status" /\ AllStr(command_output) /\ exc = NoExc /\ exc' # NoExc) =>
          /\ pc = "L74"
          /\ stdout' = stdout
          /\ Len(stdout) = 1
          /\ LET text == stdout[1]
                 body == SubSeq(text, 1, Len(text) - 1)
             IN  /\ text = body \o "\n"
                 /\ IF Len(command_output) = 0 THEN body = ""
                    ELSE Split(body, "\n") = StrsOf(command_output)
          /\ exc'.type = "Exception"
          /\ LET said == "failed to execute: "
                 tail == SubSeq(exc'.msg, Len(said) + 1, Len(exc'.msg))
             IN  /\ exc'.msg = said \o tail
                 /\ IF Len(command) = 0 THEN tail = ""
                    ELSE Split(tail, " ") = StrsOf(command)]_vars

C2_Witness ==
    /\ fn = "cmd_status"
    /\ pc = "raised"
    /\ caller = "direct"
    /\ Len(command_output) = 2
    /\ command_output[1] # command_output[2]
    /\ Len(command) = 2
    /\ Len(stdout) = 1

AllArgumentOptions == \A k \in 1..Len(params) : params[k].key \in opts_args

\* C3: when every key of the configuration is an argument option,
\* cmd_prepare returns exactly 2 * |config| tokens: '-<key>' then the key's
\* value, pair after pair in the configuration's order.
C3_ArgumentPairs ==
    (fn = "cmd_prepare" /\ AllArgumentOptions) =>
        /\ pc # "raised"
        /\ pc = "returned" =>
               /\ Len(command) = 2 * Len(params)
               /\ \A k \in 1..Len(params) :
                      /\ command[2 * k - 1] = PyStr("-" \o params[k].key)
                      /\ command[2 * k] = params[k].value

C3_Witness ==
    /\ fn = "cmd_prepare"
    /\ pc = "returned"
    /\ AllArgumentOptions
    /\ Len(params) >= 2
    /\ params[1].value # params[2].value

Unsupported(k) ==
    params[k].key \notin opts_args /\ params[k].key \notin opts_flags

\* C5: a configuration with a key in neither option set makes cmd_prepare
\* raise 'unsupported option' naming such a key (the first one in iteration
\* order) and return no token list, wherever the key stands and whatever
\* the other keys and values are.
C5_UnsupportedOption ==
    (fn = "cmd_prepare" /\ \E k \in 1..Len(params) : Unsupported(k)) =>
        LET first == CHOOSE k \in 1..Len(params) :
                         Unsupported(k) /\ \A j \in 1..(k - 1) : ~Unsupported(j)
        IN  /\ pc # "returned"
            /\ i > first => pc = "raised"
            /\ pc = "raised" =>
                   /\ exc.type = "Exception"
                   /\ Split(exc.msg, ": ") = <<"unsupported option", params[first].key>>

C5_Witness ==
    /\ fn = "cmd_prepare"
    /\ pc = "raised"
    /\ Len(params) >= 2
    /\ ~Unsupported(1)
    /\ Unsupported(2)
    /\ Len(command) > 0

\* the tokens '-<key>' that stand in the command
TokensOf(key) == {j \in 1..Len(command) : command[j] = PyStr("-" \o key)}

FlagOnly(k) == params[k].key \in opts_flags /\ params[k].key \notin opts_args

\* C4: a flag option contributes exactly one token '-<key>' and no value
\* token when its value is exactly the boolean true, and no token for any
\* other value (false, the integer 1, a non-empty string).
C4_FlagOnlyForTrue ==
    (fn = "cmd_prepare" /\ pc = "returned") =>
        /\ \A k \in 1..Len(params) :
               FlagOnly(k) =>
                   Cardinality(TokensOf(params[k].key))
                       = IF params[k].value = PyBool(TRUE) THEN 1 ELSE 0
        /\ Len(command)
               = 2 * Cardinality({k \in 1..Len(params) : params[k].key \in opts_args})
                 + Cardinality({k \in 1..Len(params) :
                                    FlagOnly(k) /\ params[k].value = PyBool(TRUE)})

\* the line holds nothing but whitespace
Blank(line) == \A k \in 1..Len(line) : SubSeq(line, k, k) \in Whitespace

\* C6: format_output drops every empty or blank line: the result holds no
\* empty-string scalar and no record that comes from a whitespace-only line.
C6_BlankLinesDropped ==
    (fn = "format_output" /\ pc = "returned") =>
        /\ \A j \in 1..Len(result) : result[j] # PyStr("")
        /\ Len(result)
               = Cardinality({k \in 1..Len(command_output) :
                                  /\ ~Blank(command_output[k].s)
                                  /\ ~Ignored(command_output[k].s)})

\* the boilerplate substrings
Boilerplate ==
    {"Informatica", "Copyright", "All Rights Reserved",
     "This Software is protected", "Invoked at", "Completed at",
     "completed successfully"}

NoBoilerplate(line) == \A b \in Boilerplate : ~Contains(line, b)

Survives(line) == line # "" /\ NoBoilerplate(line)

\* t is line without its leading and trailing whitespace
IsTrimOf(t, line) ==
    \E a \in 0..Len(line) : \E b \in a..Len(line) :
        /\ t = SubSeq(line, a + 1, b)
        /\ Blank(SubSeq(line, 1, a))
        /\ Blank(SubSeq(line, b + 1, Len(line)))
        /\ t # "" => /\ SubSeq(t, 1, 1) \notin Whitespace
                     /\ SubSeq(t, Len(t), Len(t)) \notin Whitespace

\* C7: a surviving line that holds the separator becomes the list of the
\* fields of the trimmed line, cut at the separator, the fields themselves
\* untrimmed; a surviving line without the separator becomes the trimmed
\* line, a scalar.
C7_RecordShape ==
    (fn = "format_output" /\ pc = "returned") =>
        LET lines == SelectSeq(StrsOf(raw_output), Survives)
        IN  /\ Len(result) = Len(lines)
            /\ \A j \in 1..Len(lines) :
                   IF Contains(lines[j], field_separator)
                   THEN /\ result[j].type = "list"
                        /\ Len(result[j].l) >= 1
                        /\ IsTrimOf(Join(result[j].l, field_separator), lines[j])
                        /\ \A k \in 1..Len(result[j].l) :
                               ~Contains(result[j].l[k], field_separator)
                   ELSE /\ result[j].type = "str"
                        /\ IsTrimOf(result[j].s, lines[j])

C7_Witness ==
    /\ fn = "format_output"
    /\ pc = "returned"
    /\ field_separator = "|"
    /\ StrsOf(raw_output) = <<" a | b ", "  x  ">>
    /\ result = <<PyList(<<"a ", " b">>), PyStr("x")>>

\* the text a record was made from
RecordText(rec) ==
    IF rec.type = "list" THEN Join(rec.l, field_separator) ELSE rec.s

\* C8 as amended: the records answer one to one, in order, to the
\* non-empty input lines that hold no boilerplate substring.
C8_StableFilter ==
    (fn = "format_output" /\ pc = "returned") =>
        LET lines == SelectSeq(StrsOf(raw_output), Survives)
        IN  /\ Len(result) = Len(lines)
            /\ \A j \in 1..Len(lines) : RecordText(result[j]) = Strip(lines[j])

\* C8: the records answer one to one, in order, to exactly the input lines
\* that hold no boilerplate substring.
C8_Original ==
    (fn = "format_output" /\ pc = "returned") =>
        LET lines == SelectSeq(StrsOf(raw_output), NoBoilerplate)
        IN  /\ Len(result) = Len(lines)
            /\ \A j \in 1..Len(lines) : RecordText(result[j]) = Strip(lines[j])

C8_Witness ==
    /\ fn = "format_output"
    /\ pc = "returned"
    /\ field_separator = "|"
    /\ StrsOf(raw_output) = <<"Completed at 10:01", "A|B|C">>
    /\ result = <<PyList(<<"A", "B", "C">>)>>

\* the control file for the arguments a
ExpectedControlFile(a) ==
    "<?xml version=\"1.0\" encoding=\"ISO-8859-1\"?>\n<!DOCTYPE IMPORTPARAMS SYSTEM \""
    \o a.dtd
    \o "\">\n<IMPORTPARAMS CHECKIN_AFTER_IMPORT=\"NO\">\n<FOLDERMAP SOURCEFOLDERNAME=\""
    \o a.src_folder
    \o "\" SOURCEREPOSITORYNAME=\""
    \o a.src_repo
    \o "\" TARGETFOLDERNAME=\""
    \o a.tgt_folder
    \o "\" TARGETREPOSITORYNAME=\""
    \o a.tgt_repo
    \o "\"/>\n<RESOLVECONFLICT>\n<TYPEOBJECT OBJECTTYPENAME = \"ALL\" RESOLUTION=\"REPLACE\"/>\n"
    \o "</RESOLVECONFLICT>\n</IMPORTPARAMS>"

Occurrences(s, sub) ==
    Cardinality({k \in 1..(Len(s) - Len(sub) + 1) :
                     SubSeq(s, k, k + Len(sub) - 1) = sub})

\* C9: after a successful create_import_control_xml the file at the given
\* path holds exactly the template with the five values put in verbatim,
\* with CHECKIN_AFTER_IMPORT="NO" and one conflict rule, ALL / REPLACE.
C9_RoundTrip ==
    (fn = "create_import_control_xml" /\ pc = "returned") =>
        LET file == fs[xml_args.xml_output]
        IN  /\ file.exists
            /\ file.content = ExpectedControlFile(xml_args)
            /\ Contains(file.content, "<IMPORTPARAMS CHECKIN_AFTER_IMPORT=\"NO\">")
            /\ Occurrences(file.content, "<TYPEOBJECT ") = 1
            /\ Contains(file.content,
                        "<TYPEOBJECT OBJECTTYPENAME = \"ALL\" RESOLUTION=\"REPLACE\"/>")
            /\ f = ""
            /\ exc = NoExc

C9_Witness ==
    /\ fn = "create_import_control_xml"
    /\ pc = "returned"
    /\ xml_args.dtd = "{dtd}"
    /\ xml_args.src_folder = "a\"<&>b"
    /\ xml_args.src_repo = "DEV"
    /\ xml_args.tgt_repo = "a\"<&>b"
    /\ Contains(fs[xml_args.xml_output].content, "SYSTEM \"{dtd}\"")

\* the record, or one of its fields, holds the success marker
MentionsSuccess(rec) ==
    \/ Contains(rec.s, "completed successfully")
    \/ \E k \in 1..Len(rec.l) : Contains(rec.l[k], "completed successfully")

\* C10: no record format_output returns holds 'completed successfully', so
\* cmd_status on the formatted output never succeeds.
C10_StatusBeforeFormat ==
    /\ fn = "format_output" => \A j \in 1..Len(result) : ~MentionsSuccess(result[j])
    /\ (fn = "cmd_status" /\ caller = "pipeline") =>
           /\ pc # "returned"
           /\ \A j \in 1..Len(command_output) : ~MentionsSuccess(command_output[j])

C10_Witness ==
    /\ fn = "cmd_status"
    /\ caller = "pipeline"
    /\ pc = "raised"
    /\ Succeeded(raw_output)
    /\ Len(command_output) >= 1

====
